---- MODULE Spec2Model ----
(***************************************************************************)
(* Model of pptx/table.py: Table, _Cell, _Row, _Column and the three       *)
(* collections, over the element tree they proxy (tbl, tr, gridCol, tc)    *)
(* and the graphic frame that receives the table's width and height.       *)
(***************************************************************************)
EXTENDS Integers, Sequences, FiniteSets, TLC

VARIABLES
    tr_h,           \* tbl.tr_lst[i].h       : sequence of row heights
    gridCol_w,      \* tbl.tblGrid.gridCol_lst[j].w : sequence of column widths
    graphic_frame,  \* [height, width] of the owning graphic frame
    tblPr,          \* the six boolean attributes of the tbl element
    tc,             \* <<r, c>> -> attributes of the tc element at row r, column c
    spans,          \* merged regions, each [r0, c0, r1, c1]
    ret,            \* outcome of the last call: [op, arg, exc, msg, val]
    stack,          \* call stack of the setter being stepped (SpecSteps)
    log,            \* events of the setter being stepped (SpecSteps)
    held,           \* proxies the caller holds (SpecCell)
    assigned,       \* assignments of the plan already made (SpecOrder)
    initial         \* the document as constructed (SpecOrder)

vars == <<tr_h, gridCol_w, graphic_frame, tblPr, tc, spans, ret, stack, log,
          held, assigned, initial>>

(***************************************************************************)
(* Bounds.                                                                 *)
(***************************************************************************)
MaxRows == 2
MaxCols == 2
MaxLen == 2
MaxMargin == 1

(***************************************************************************)
(* Python values: a class name, a payload of integers, an object identity  *)
(* (0 for values without one).                                             *)
(***************************************************************************)
PyInt(n) == [cls |-> "int", v |-> <<n>>, oid |-> 0]
PyNone == [cls |-> "NoneType", v |-> <<>>, oid |-> 0]
PyFloat(whole, tenths) == [cls |-> "float", v |-> <<whole, tenths>>, oid |-> 0]
PyTuple(items) == [cls |-> "tuple", v |-> items, oid |-> 0]
Proxy(cls, elem, oid) == [cls |-> cls, v |-> elem, oid |-> oid]

RECURSIVE SumSeq(_)
SumSeq(s) == IF s = <<>> THEN 0 ELSE Head(s) + SumSeq(Tail(s))

RECURSIVE Digits(_)
Digits(n) == IF n < 10 THEN <<n>> ELSE Digits(n \div 10) \o <<n % 10>>

DigitChar(d) == <<"0", "1", "2", "3", "4", "5", "6", "7", "8", "9">>[d + 1]

\* "%d" % i for an integer i: an optional minus sign, then the decimal digits.
FormatD(i) ==
    LET ds == Digits(IF i < 0 THEN -i ELSE i)
        cs == [k \in 1..Len(ds) |-> DigitChar(ds[k])]
    IN  IF i < 0 THEN <<"-">> \o cs ELSE cs

(***************************************************************************)
(* The document: the element tree and the graphic frame, as one record.    *)
(* Operations take a document and return [doc, exc, msg, val].             *)
(***************************************************************************)
Doc == [tr_h |-> tr_h, gridCol_w |-> gridCol_w, graphic_frame |-> graphic_frame,
        tblPr |-> tblPr, tc |-> tc, spans |-> spans]

Return(d, val) == [doc |-> d, exc |-> "None", msg |-> <<>>, val |-> val]
Raise(d, exc, msg) == [doc |-> d, exc |-> exc, msg |-> msg, val |-> PyNone]

\* _RowCollection.__len__
RowCollection_len(d) == Len(d.tr_h)

\* _RowCollection.__getitem__
RowCollection_getitem(d, idx) ==
    IF idx < 0 \/ idx >= RowCollection_len(d)
    THEN Raise(d, "IndexError", <<"row index [">> \o FormatD(idx) \o <<"] out of range">>)
    ELSE Return(d, Proxy("_Row", <<idx>>, 0))

\* _ColumnCollection.__len__
ColumnCollection_len(d) == Len(d.gridCol_w)

\* _ColumnCollection.__getitem__
ColumnCollection_getitem(d, idx) ==
    IF idx < 0 \/ idx >= Len(d.gridCol_w)
    THEN Raise(d, "IndexError", <<"column index [">> \o FormatD(idx) \o <<"] out of range">>)
    ELSE Return(d, Proxy("_Column", <<idx>>, 0))

\* tr.tc_lst: the tc elements of row r, in document order
Tr_tc_lst(d, r) ==
    LET n == Cardinality({rc \in DOMAIN d.tc : rc[1] = r})
    IN  [k \in 1..n |-> <<r, k - 1>>]

\* _CellCollection.__len__
CellCollection_len(d, row) == Len(Tr_tc_lst(d, row.v[1]))

\* Mutant: only the upper bound is checked, so a negative index counts from
\* the end as in a Python list.
CellCollection_getitem_FromEnd(d, row, idx) ==
    LET lst == Tr_tc_lst(d, row.v[1])
    IN  IF idx >= Len(lst)
        THEN Raise(d, "IndexError", <<"cell index [">> \o FormatD(idx) \o <<"] out of range">>)
        ELSE Return(d, Proxy("_Cell", lst[((idx + 2 * Len(lst)) % Len(lst)) + 1], 0))

\* _CellCollection.__getitem__, for the collection `row.cells`
CellCollection_getitem(d, row, idx) ==
    IF idx < 0 \/ idx >= Len(Tr_tc_lst(d, row.v[1]))
    THEN Raise(d, "IndexError", <<"cell index [">> \o FormatD(idx) \o <<"] out of range">>)
    ELSE Return(d, Proxy("_Cell", Tr_tc_lst(d, row.v[1])[idx + 1], 0))

\* _Row.height (getter): the h attribute of the row's tr element
Row_height(d, row) == d.tr_h[row.v[1] + 1]

\* _Column.width (getter): the w attribute of the column's gridCol element
Column_width(d, col) == d.gridCol_w[col.v[1] + 1]

\* `for row in self.rows`: _RowCollection defines no __iter__, so Python
\* iterates by __getitem__(0), __getitem__(1), ... until IndexError.
RECURSIVE RowHeightsFrom(_, _)
RowHeightsFrom(d, idx) ==
    LET r == RowCollection_getitem(d, idx)
    IN  IF r.exc = "IndexError" THEN <<>>
        ELSE <<Row_height(d, r.val)>> \o RowHeightsFrom(d, idx + 1)

RECURSIVE ColumnWidthsFrom(_, _)
ColumnWidthsFrom(d, idx) ==
    LET r == ColumnCollection_getitem(d, idx)
    IN  IF r.exc = "IndexError" THEN <<>>
        ELSE <<Column_width(d, r.val)>> \o ColumnWidthsFrom(d, idx + 1)

\* Mutant: the new height is summed over the columns instead of the rows.
Table_notify_height_changed_OverColumns(d) ==
    [d EXCEPT !.graphic_frame.height = SumSeq(ColumnWidthsFrom(d, 0))]

\* Table.notify_height_changed
Table_notify_height_changed(d) ==
    LET new_table_height == SumSeq(RowHeightsFrom(d, 0))
    IN  [d EXCEPT !.graphic_frame.height = new_table_height]

\* Table.notify_width_changed
Table_notify_width_changed(d) ==
    LET new_table_width == SumSeq(ColumnWidthsFrom(d, 0))
    IN  [d EXCEPT !.graphic_frame.width = new_table_width]

\* Mutant: the row collection relays a height change as a change of both
\* dimensions.
RowCollection_notify_height_changed_Both(d) ==
    Table_notify_width_changed(Table_notify_height_changed(d))

\* _RowCollection.notify_height_changed
RowCollection_notify_height_changed(d) == Table_notify_height_changed(d)

\* _ColumnCollection.notify_width_changed
ColumnCollection_notify_width_changed(d) == Table_notify_width_changed(d)

\* Mutant: the setter writes the height and notifies nobody.
Row_height_set_Silent(d, row, height) == [d EXCEPT !.tr_h[row.v[1] + 1] = height]

\* _Row.height (setter)
Row_height_set(d, row, height) ==
    RowCollection_notify_height_changed([d EXCEPT !.tr_h[row.v[1] + 1] = height])

\* Mutant: the setter notifies before it writes the width.
Column_width_set_NotifyFirst(d, col, width) ==
    [ColumnCollection_notify_width_changed(d) EXCEPT !.gridCol_w[col.v[1] + 1] = width]

\* _Column.width (setter)
Column_width_set(d, col, width) ==
    ColumnCollection_notify_width_changed([d EXCEPT !.gridCol_w[col.v[1] + 1] = width])

(***************************************************************************)
(* Documents a table can be constructed over.                              *)
(***************************************************************************)
Lengths == 1..MaxLen

SeqsOf(S, n) == [1..n -> S]

Flags(b) == [firstRow |-> b, firstCol |-> b, lastRow |-> b, lastCol |-> b,
             bandRow |-> b, bandCol |-> b]

CellAttrs(m, a) == [marL |-> m, marR |-> m, marT |-> m, marB |-> m, anchor |-> a]

Coords(R, C) == (0..(R - 1)) \X (0..(C - 1))

Commit(d) ==
    /\ tr_h' = d.tr_h
    /\ gridCol_w' = d.gridCol_w
    /\ graphic_frame' = d.graphic_frame
    /\ tblPr' = d.tblPr
    /\ tc' = d.tc
    /\ spans' = d.spans

Outcome(op, arg, r) == [op |-> op, arg |-> arg, exc |-> r.exc, msg |-> r.msg, val |-> r.val]

NoCall == [op |-> "", arg |-> <<>>, exc |-> "None", msg |-> <<>>, val |-> PyNone]

(***************************************************************************)
(* Spec: size assignments through the collections.                         *)
(***************************************************************************)
Fresh == CellAttrs(PyNone, PyNone)
Styled == CellAttrs(PyInt(0), PyInt(1))

\* A table of the given row heights and column widths, unmerged, with every
\* flag b and every cell styled iff b.
TableInit(hs, ws, b) ==
    /\ tr_h = hs
    /\ gridCol_w = ws
    /\ tblPr = Flags(b)
    /\ tc = [rc \in Coords(Len(hs), Len(ws)) |-> IF b THEN Styled ELSE Fresh]
    /\ spans = {}

Consistent(hs, ws) == [height |-> SumSeq(hs), width |-> SumSeq(ws)]
Unsized == [height |-> 0, width |-> 0]

Idle ==
    /\ ret = NoCall
    /\ stack = <<>>
    /\ log = <<>>
    /\ held = <<>>
    /\ assigned = {}
    /\ initial = <<>>

Init ==
    /\ \E R \in 1..MaxRows, C \in 1..MaxCols :
         \E hs \in SeqsOf(Lengths, R), ws \in SeqsOf(Lengths, C) :
            /\ TableInit(hs, ws, TRUE)
            /\ graphic_frame \in {Unsized, Consistent(hs, ws)}
    /\ Idle

\* table.rows[idx].height = height
CallSetRowHeight(idx, height) ==
    LET got == RowCollection_getitem(Doc, idx)
        r == IF got.exc # "None" THEN got
             ELSE Return(Row_height_set(Doc, got.val, height), PyNone)
    IN  /\ Commit(r.doc)
        /\ ret' = Outcome("rows[].height=", <<idx>>, r)

\* table.columns[idx].width = width
CallSetColumnWidth(idx, width) ==
    LET got == ColumnCollection_getitem(Doc, idx)
        r == IF got.exc # "None" THEN got
             ELSE Return(Column_width_set(Doc, got.val, width), PyNone)
    IN  /\ Commit(r.doc)
        /\ ret' = Outcome("columns[].width=", <<idx>>, r)

SetRowHeight(idx, height) ==
    /\ CallSetRowHeight(idx, height)
    /\ UNCHANGED <<stack, log, held, assigned, initial>>

SetColumnWidth(idx, width) ==
    /\ CallSetColumnWidth(idx, width)
    /\ UNCHANGED <<stack, log, held, assigned, initial>>

Next ==
    \/ \E idx \in 0..Len(tr_h), height \in Lengths : SetRowHeight(idx, height)
    \/ \E idx \in 0..Len(gridCol_w), width \in Lengths : SetColumnWidth(idx, width)

Spec == Init /\ [][Next]_vars

(***************************************************************************)
(* The two table invariants of the data model.                             *)
(***************************************************************************)
HeightInv == graphic_frame.height = SumSeq(tr_h)
WidthInv == graphic_frame.width = SumSeq(gridCol_w)

RowSetReturned == ret.op = "rows[].height=" /\ ret.exc = "None"
ColumnSetReturned == ret.op = "columns[].width=" /\ ret.exc = "None"

\* C1: right after `rows[i].height = h` returns, the container's height is the
\* sum of the current row heights; right after `columns[j].width = w` returns,
\* the container's width is the sum of the current column widths.
C1_AggregateAfterSet ==
    /\ RowSetReturned => HeightInv
    /\ ColumnSetReturned => WidthInv

\* C1 witness: a height was assigned in a table of two rows of different
\* heights, and a width in a table of two columns of different widths.
C1_Witness ==
    \/ /\ RowSetReturned
       /\ Len(tr_h) >= 2
       /\ tr_h[1] # tr_h[2]
    \/ /\ ColumnSetReturned
       /\ Len(gridCol_w) >= 2
       /\ gridCol_w[1] # gridCol_w[2]

\* C2 as stated: after any single row or column size assignment BOTH
\* invariants hold, whatever the container's width and height were before.
C2_BothInvariantsAfterAnySet ==
    (RowSetReturned \/ ColumnSetReturned) => (HeightInv /\ WidthInv)

\* C2 amended: a row height assignment establishes the height invariant and
\* preserves the width invariant (it holds after if it held before); a column
\* width assignment establishes the width invariant and preserves the height
\* invariant.
C2_SetEstablishesOwnPreservesOther ==
    [][/\ RowSetReturned' => (HeightInv' /\ (WidthInv => WidthInv'))
       /\ ColumnSetReturned' => (WidthInv' /\ (HeightInv => HeightInv'))]_vars

\* C2 witness: a row height was assigned, the height invariant holds and the
\* width invariant, which did not hold at construction, still does not.
C2_Witness == RowSetReturned /\ HeightInv /\ ~WidthInv

SameExcept(s, t, k) ==
    /\ Len(s) = Len(t)
    /\ \A n \in 1..Len(s) : n # k => s[n] = t[n]

\* C10: `rows[i].height = h` changes only the height of row i and the
\* container's height; `columns[j].width = w` changes only the width of column
\* j and the container's width. Other rows and columns, the other dimension of
\* the container, the table flags and every cell attribute are left alone.
C10_FrameOfSizeSet ==
    [][/\ RowSetReturned' =>
            /\ SameExcept(tr_h, tr_h', ret'.arg[1] + 1)
            /\ gridCol_w' = gridCol_w
            /\ graphic_frame'.width = graphic_frame.width
            /\ UNCHANGED <<tblPr, tc, spans>>
       /\ ColumnSetReturned' =>
            /\ SameExcept(gridCol_w, gridCol_w', ret'.arg[1] + 1)
            /\ tr_h' = tr_h
            /\ graphic_frame'.height = graphic_frame.height
            /\ UNCHANGED <<tblPr, tc, spans>>]_vars

\* C10 witness: a row height was assigned in a table whose flags and cell
\* attributes are set and whose container width differs from the column sum.
C10_Witness ==
    /\ RowSetReturned
    /\ tblPr.firstRow
    /\ tc[<<0, 0>>].marL # PyNone
    /\ ~WidthInv
    /\ Len(tr_h) >= 2

(***************************************************************************)
(* SpecIndex: indexed access to table.rows, table.columns and row.cells.   *)
(***************************************************************************)
IndexInit ==
    /\ \E R \in 1..MaxRows, C \in 1..MaxCols :
         \E hs \in SeqsOf(Lengths, R), ws \in SeqsOf(Lengths, C) :
            /\ TableInit(hs, ws, TRUE)
            /\ graphic_frame = Consistent(hs, ws)
    /\ Idle

\* table.rows[idx]
RowsGetItem(idx) ==
    LET r == RowCollection_getitem(Doc, idx)
    IN  /\ Commit(r.doc)
        /\ ret' = Outcome("rows[]", <<idx>>, r)
        /\ UNCHANGED <<stack, log, held, assigned, initial>>

\* table.columns[idx]
ColumnsGetItem(idx) ==
    LET r == ColumnCollection_getitem(Doc, idx)
    IN  /\ Commit(r.doc)
        /\ ret' = Outcome("columns[]", <<idx>>, r)
        /\ UNCHANGED <<stack, log, held, assigned, initial>>

\* table.rows[row_idx].cells[idx], row_idx in range
CellsGetItem(row_idx, idx) ==
    LET r == CellCollection_getitem(Doc, RowCollection_getitem(Doc, row_idx).val, idx)
    IN  /\ Commit(r.doc)
        /\ ret' = Outcome("cells[]", <<row_idx, idx>>, r)
        /\ UNCHANGED <<stack, log, held, assigned, initial>>

IndexNext ==
    \/ \E idx \in (-2)..(Len(tr_h) + 1) : RowsGetItem(idx)
    \/ \E idx \in (-2)..(Len(gridCol_w) + 1) : ColumnsGetItem(idx)
    \/ \E row_idx \in 0..(Len(tr_h) - 1), idx \in (-2)..(Len(gridCol_w) + 1) :
          CellsGetItem(row_idx, idx)

SpecIndex == IndexInit /\ [][IndexNext]_vars

DigitVal(c) == CHOOSE d \in 0..9 : DigitChar(d) = c

RECURSIVE ParseDigits(_)
ParseDigits(cs) ==
    IF cs = <<>> THEN 0
    ELSE 10 * ParseDigits(SubSeq(cs, 1, Len(cs) - 1)) + DigitVal(cs[Len(cs)])

\* The integer a decimal rendering denotes.
ParseD(cs) == IF Head(cs) = "-" THEN 0 - ParseDigits(Tail(cs)) ELSE ParseDigits(cs)

\* The integer between the brackets of an index error's message.
IndexInMessage(msg) == ParseD(SubSeq(msg, 2, Len(msg) - 1))

IndexedOp == ret.op \in {"rows[]", "columns[]", "cells[]"}
IndexAsked == ret.arg[Len(ret.arg)]
IndexedLen == IF ret.op = "rows[]" THEN Len(tr_h) ELSE Len(gridCol_w)
IndexedElement ==
    CASE ret.op = "rows[]" -> Proxy("_Row", <<IndexAsked>>, 0)
      [] ret.op = "columns[]" -> Proxy("_Column", <<IndexAsked>>, 0)
      [] ret.op = "cells[]" -> Proxy("_Cell", <<ret.arg[1], IndexAsked>>, 0)

\* C4: coll[i] raises IndexError, with i in the message, exactly when i < 0 or
\* i >= len(coll); otherwise it returns a proxy for the i-th element; and no
\* indexed access changes the table, its rows, columns, cells or container.
C4_IndexedAccess ==
    /\ [](IndexedOp =>
            /\ (ret.exc = "IndexError") <=> (IndexAsked < 0 \/ IndexAsked >= IndexedLen)
            /\ ret.exc = "IndexError" => IndexInMessage(ret.msg) = IndexAsked
            /\ ret.exc # "IndexError" => (ret.exc = "None" /\ ret.val = IndexedElement))
    /\ [][IndexedOp' => UNCHANGED <<tr_h, gridCol_w, graphic_frame, tblPr, tc, spans>>]_vars

\* C4 witness: cells[-1] was refused on a row of two cells, where from-the-end
\* indexing would have found a cell.
C4_Witness ==
    /\ ret.op = "cells[]"
    /\ IndexAsked = -1
    /\ ret.exc = "IndexError"
    /\ Len(gridCol_w) = 2

(***************************************************************************)
(* SpecOrder: a plan of size assignments to distinct rows and columns of a *)
(* 2 x 3 table, carried out in any order.                                  *)
(***************************************************************************)
PlanHeights == <<100, 200>>
PlanWidths == <<10, 20, 30>>

OrderInit ==
    /\ \E hs \in SeqsOf(Lengths, Len(PlanHeights)), ws \in SeqsOf(Lengths, Len(PlanWidths)) :
         /\ TableInit(hs, ws, FALSE)
         /\ graphic_frame \in {Unsized, Consistent(hs, ws)}
    /\ ret = NoCall
    /\ stack = <<>>
    /\ log = <<>>
    /\ held = <<>>
    /\ assigned = {}
    /\ initial = Doc

\* table.rows[idx].height = PlanHeights[idx], not yet done
AssignRow(idx) ==
    /\ <<"row", idx>> \notin assigned
    /\ CallSetRowHeight(idx, PlanHeights[idx + 1])
    /\ assigned' = assigned \cup {<<"row", idx>>}
    /\ UNCHANGED <<stack, log, held, initial>>

\* table.columns[idx].width = PlanWidths[idx], not yet done
AssignColumn(idx) ==
    /\ <<"col", idx>> \notin assigned
    /\ CallSetColumnWidth(idx, PlanWidths[idx + 1])
    /\ assigned' = assigned \cup {<<"col", idx>>}
    /\ UNCHANGED <<stack, log, held, initial>>

OrderNext ==
    \/ \E idx \in 0..(Len(PlanHeights) - 1) : AssignRow(idx)
    \/ \E idx \in 0..(Len(PlanWidths) - 1) : AssignColumn(idx)

SpecOrder == OrderInit /\ [][OrderNext]_vars

RowsAssigned == {i \in 0..(Len(PlanHeights) - 1) : <<"row", i>> \in assigned}
ColumnsAssigned == {j \in 0..(Len(PlanWidths) - 1) : <<"col", j>> \in assigned}
PlanDone ==
    /\ RowsAssigned = 0..(Len(PlanHeights) - 1)
    /\ ColumnsAssigned = 0..(Len(PlanWidths) - 1)

\* What the set of assignments made, in no particular order, determines.
HeightsOf(done) ==
    [k \in 1..Len(PlanHeights) |-> IF (k - 1) \in done THEN PlanHeights[k] ELSE initial.tr_h[k]]
WidthsOf(done) ==
    [k \in 1..Len(PlanWidths) |-> IF (k - 1) \in done THEN PlanWidths[k] ELSE initial.gridCol_w[k]]

\* C3: the container's height and width after a set of assignments to distinct
\* rows and columns are determined by the set alone, whatever the order they
\* were made in; with heights 100, 200 and widths 10, 20, 30 all assigned to a
\* 2 x 3 table the container's height is 300 and its width 60.
C3_OrderIndependent ==
    /\ graphic_frame.height =
         IF RowsAssigned = {} THEN initial.graphic_frame.height
         ELSE SumSeq(HeightsOf(RowsAssigned))
    /\ graphic_frame.width =
         IF ColumnsAssigned = {} THEN initial.graphic_frame.width
         ELSE SumSeq(WidthsOf(ColumnsAssigned))
    /\ PlanDone => (graphic_frame.height = 300 /\ graphic_frame.width = 60)

\* C3 witness: all five assignments were made, the last one to a column
\* other than the last column.
C3_Witness ==
    /\ PlanDone
    /\ ret.op = "columns[].width="
    /\ ret.arg = <<0>>
    /\ graphic_frame = [height |-> 300, width |-> 60]

(***************************************************************************)
(* SpecSteps: one size assignment, statement by statement. Each method is  *)
(* the sequence of its statements; a frame is a method and the index of    *)
(* its next statement; log records the target of every statement executed. *)
(***************************************************************************)
SetAttr(target) == [op |-> "setattr", target |-> target]
Call(target) == [op |-> "call", target |-> target]
SumOver(target) == [op |-> "sum", target |-> target]

\* Mutant: the setter notifies its parent before it writes the height.
Row_height_setter_body_NotifyFirst ==
    <<Call("_RowCollection.notify_height_changed"), SetAttr("tr.h")>>

\* _Row.height (setter)
Row_height_setter_body ==
    <<SetAttr("tr.h"), Call("_RowCollection.notify_height_changed")>>

\* _Column.width (setter)
Column_width_setter_body ==
    <<SetAttr("gridCol.w"), Call("_ColumnCollection.notify_width_changed")>>

\* _RowCollection.notify_height_changed
RowCollection_notify_height_changed_body == <<Call("Table.notify_height_changed")>>

\* _ColumnCollection.notify_width_changed
ColumnCollection_notify_width_changed_body == <<Call("Table.notify_width_changed")>>

\* Table.notify_height_changed
Table_notify_height_changed_body == <<SumOver("rows"), SetAttr("graphic_frame.height")>>

\* Table.notify_width_changed
Table_notify_width_changed_body == <<SumOver("columns"), SetAttr("graphic_frame.width")>>

Body(fn) ==
    CASE fn = "_Row.height" -> Row_height_setter_body
      [] fn = "_Column.width" -> Column_width_setter_body
      [] fn = "_RowCollection.notify_height_changed" -> RowCollection_notify_height_changed_body
      [] fn = "_ColumnCollection.notify_width_changed" -> ColumnCollection_notify_width_changed_body
      [] fn = "Table.notify_height_changed" -> Table_notify_height_changed_body
      [] fn = "Table.notify_width_changed" -> Table_notify_width_changed_body

Frame(fn, idx, value) == [fn |-> fn, ip |-> 1, idx |-> idx, value |-> value, total |-> 0]

Top == stack[Len(stack)]
Running == stack # <<>> /\ Top.ip <= Len(Body(Top.fn))
Current == Body(Top.fn)[Top.ip]
Advance(frame) == [frame EXCEPT !.ip = @ + 1]
SetTop(frame) == [stack EXCEPT ![Len(stack)] = frame]

StepsInit ==
    /\ \E R \in 1..MaxRows, C \in 1..MaxCols :
         \E hs \in SeqsOf(Lengths, R), ws \in SeqsOf(Lengths, C) :
            /\ TableInit(hs, ws, FALSE)
            /\ graphic_frame = Unsized
    /\ Idle

\* table.rows[idx].height = height is entered (idx in range)
BeginSetRowHeight(idx, height) ==
    /\ stack = <<>>
    /\ stack' = <<Frame("_Row.height", idx, height)>>
    /\ log' = <<>>
    /\ ret' = NoCall
    /\ UNCHANGED <<tr_h, gridCol_w, graphic_frame, tblPr, tc, spans, held, assigned, initial>>

\* table.columns[idx].width = width is entered (idx in range)
BeginSetColumnWidth(idx, width) ==
    /\ stack = <<>>
    /\ stack' = <<Frame("_Column.width", idx, width)>>
    /\ log' = <<>>
    /\ ret' = NoCall
    /\ UNCHANGED <<tr_h, gridCol_w, graphic_frame, tblPr, tc, spans, held, assigned, initial>>

\* self._tr.h = height / self._gridCol.w = width
ExecSetNode ==
    /\ Running
    /\ Current.op = "setattr"
    /\ Current.target \in {"tr.h", "gridCol.w"}
    /\ IF Current.target = "tr.h"
       THEN tr_h' = [tr_h EXCEPT ![Top.idx + 1] = Top.value] /\ UNCHANGED gridCol_w
       ELSE gridCol_w' = [gridCol_w EXCEPT ![Top.idx + 1] = Top.value] /\ UNCHANGED tr_h
    /\ stack' = SetTop(Advance(Top))
    /\ log' = Append(log, Current.target)
    /\ UNCHANGED <<graphic_frame, tblPr, tc, spans, ret, held, assigned, initial>>

\* self._parent.notify_..._changed()
ExecCall ==
    /\ Running
    /\ Current.op = "call"
    /\ stack' = Append(SetTop(Advance(Top)), Frame(Current.target, Top.idx, Top.value))
    /\ log' = Append(log, Current.target)
    /\ UNCHANGED <<tr_h, gridCol_w, graphic_frame, tblPr, tc, spans, ret, held, assigned, initial>>

\* new_table_height = sum([row.height for row in self.rows]), and for widths
ExecSum ==
    /\ Running
    /\ Current.op = "sum"
    /\ stack' = SetTop([Advance(Top) EXCEPT !.total =
                    IF Current.target = "rows" THEN SumSeq(RowHeightsFrom(Doc, 0))
                    ELSE SumSeq(ColumnWidthsFrom(Doc, 0))])
    /\ log' = Append(log, Current.target)
    /\ UNCHANGED <<tr_h, gridCol_w, graphic_frame, tblPr, tc, spans, ret, held, assigned, initial>>

\* self._graphic_frame.height = new_table_height, and for the width
ExecSetFrame ==
    /\ Running
    /\ Current.op = "setattr"
    /\ Current.target \in {"graphic_frame.height", "graphic_frame.width"}
    /\ graphic_frame' = IF Current.target = "graphic_frame.height"
                        THEN [graphic_frame EXCEPT !.height = Top.total]
                        ELSE [graphic_frame EXCEPT !.width = Top.total]
    /\ stack' = SetTop(Advance(Top))
    /\ log' = Append(log, Current.target)
    /\ UNCHANGED <<tr_h, gridCol_w, tblPr, tc, spans, ret, held, assigned, initial>>

\* a method runs off its last statement and returns to its caller
ExecReturn ==
    /\ stack # <<>>
    /\ ~Running
    /\ stack' = SubSeq(stack, 1, Len(stack) - 1)
    /\ ret' = IF Len(stack) > 1 THEN ret
              ELSE [NoCall EXCEPT
                      !.op = IF Top.fn = "_Row.height" THEN "rows[].height="
                             ELSE "columns[].width=",
                      !.arg = <<Top.idx, Top.value>>]
    /\ UNCHANGED <<tr_h, gridCol_w, graphic_frame, tblPr, tc, spans, log, held, assigned, initial>>

StepsNext ==
    \/ \E idx \in 0..(Len(tr_h) - 1), height \in Lengths : BeginSetRowHeight(idx, height)
    \/ \E idx \in 0..(Len(gridCol_w) - 1), width \in Lengths : BeginSetColumnWidth(idx, width)
    \/ ExecSetNode
    \/ ExecCall
    \/ ExecSum
    \/ ExecSetFrame
    \/ ExecReturn

SpecSteps == StepsInit /\ [][StepsNext]_vars

HeightSetEvents ==
    <<"tr.h", "_RowCollection.notify_height_changed", "Table.notify_height_changed",
      "rows", "graphic_frame.height">>
WidthSetEvents ==
    <<"gridCol.w", "_ColumnCollection.notify_width_changed", "Table.notify_width_changed",
      "columns", "graphic_frame.width">>

IsPrefix(s, t) == Len(s) <= Len(t) /\ s = SubSeq(t, 1, Len(s))

\* C9: within one size assignment the node is written, then the collection is
\* notified, then the table, which reads every height (width) and then writes
\* the container; all of it before the setter returns, so the container
\* holds a sum that includes the value just assigned.
C9_SetOrder ==
    /\ stack # <<>> =>
          IsPrefix(log, IF stack[1].fn = "_Row.height" THEN HeightSetEvents
                        ELSE WidthSetEvents)
    /\ (stack = <<>> /\ ret.op = "rows[].height=") =>
          /\ log = HeightSetEvents
          /\ tr_h[ret.arg[1] + 1] = ret.arg[2]
          /\ graphic_frame.height = SumSeq(tr_h)
    /\ (stack = <<>> /\ ret.op = "columns[].width=") =>
          /\ log = WidthSetEvents
          /\ gridCol_w[ret.arg[1] + 1] = ret.arg[2]
          /\ graphic_frame.width = SumSeq(gridCol_w)

\* C9 witness: a height assignment that changed the sum has returned.
C9_Witness ==
    /\ stack = <<>>
    /\ ret.op = "rows[].height="
    /\ log = HeightSetEvents
    /\ Len(tr_h) >= 2
    /\ tr_h[1] # tr_h[2]

(***************************************************************************)
(* Cells: lookup by grid coordinate, merge origin, equality, margins.      *)
(***************************************************************************)
CellsOf(span) == (span.r0..span.r1) \X (span.c0..span.c1)

\* tbl.tc(row_idx, col_idx): the tc element occupying a grid coordinate, the
\* origin of the merged region when the coordinate is covered by one.
Tbl_tc(d, row_idx, col_idx) ==
    IF <<row_idx, col_idx>> \notin DOMAIN d.tc
    THEN Raise(d, "IndexError", <<"list index out of range">>)
    ELSE LET over == {sp \in d.spans : <<row_idx, col_idx>> \in CellsOf(sp)}
         IN  IF over = {} THEN Return(d, <<row_idx, col_idx>>)
             ELSE LET sp == CHOOSE x \in over : TRUE
                  IN  Return(d, <<sp.r0, sp.c0>>)

\* tc.is_merge_origin: the element is the top-left cell of a merged region
Tc_is_merge_origin(d, elem) == \E sp \in d.spans : elem = <<sp.r0, sp.c0>>

\* reading and writing an attribute of a tc element
Tc_getattr(d, elem, name) == d.tc[elem][name]
Tc_setattr(d, elem, name, value) == [d EXCEPT !.tc[elem][name] = value]

\* Mutant: the cell is taken from the row's own cell list, whatever covers it.
Table_cell_Physical(d, row_idx, col_idx, oid) ==
    CellCollection_getitem(d, Proxy("_Row", <<row_idx>>, 0), col_idx)

\* Table.cell; oid is the identity of the proxy object constructed
Table_cell(d, row_idx, col_idx, oid) ==
    LET got == Tbl_tc(d, row_idx, col_idx)
    IN  IF got.exc # "None" THEN got ELSE Return(d, Proxy("_Cell", got.val, oid))

\* _Cell.is_merge_origin
Cell_is_merge_origin(d, cell) == Tc_is_merge_origin(d, cell.v)

\* Mutant: equality of the proxy objects themselves.
Cell_eq_Identity(self, other) ==
    IF other.cls # self.cls THEN FALSE ELSE self.oid = other.oid

\* _Cell.__eq__
Cell_eq(self, other) ==
    IF other.cls # self.cls THEN FALSE ELSE self.v = other.v

\* _Cell.__ne__
Cell_ne(self, other) ==
    IF other.cls # self.cls THEN TRUE ELSE self.v # other.v

\* a == b and a != b as Python dispatches them: the left operand's method,
\* else the right operand's, else identity (proxies) or value (int, None).
Plain_eq(a, b) == a = b
PyEq(a, b) ==
    IF a.cls = "_Cell" THEN Cell_eq(a, b)
    ELSE IF b.cls = "_Cell" THEN Cell_eq(b, a)
    ELSE Plain_eq(a, b)
PyNe(a, b) ==
    IF a.cls = "_Cell" THEN Cell_ne(a, b)
    ELSE IF b.cls = "_Cell" THEN Cell_ne(b, a)
    ELSE ~Plain_eq(a, b)

\* is_integer (pptx.compat): the value is an int
is_integer(value) == value.cls = "int"

\* str(value), as "%s" renders it
PyStr(value) ==
    CASE value.cls = "int" -> FormatD(value.v[1])
      [] value.cls = "float" -> FormatD(value.v[1]) \o <<".">> \o FormatD(value.v[2])
      [] value.cls = "NoneType" -> <<"None">>
      [] OTHER -> <<"<object>">>

\* tmpl % value for a template with one %s: a tuple on the right is taken as
\* the argument list, so only a tuple of exactly one item can be formatted.
PercentS(d, before, value, after) ==
    IF value.cls = "tuple"
    THEN IF Len(value.v) = 1 THEN Return(d, before \o FormatD(value.v[1]) \o after)
         ELSE IF Len(value.v) = 0
              THEN Raise(d, "TypeError", <<"not enough arguments for format string">>)
              ELSE Raise(d, "TypeError",
                         <<"not all arguments converted during string formatting">>)
    ELSE Return(d, before \o PyStr(value) \o after)

MarginMsgBefore == <<"margin value must be integer or None, got '">>
MarginMsgAfter == <<"'">>

\* _Cell._validate_margin_value
Cell_validate_margin_value(d, margin_value) ==
    IF ~is_integer(margin_value) /\ margin_value # PyNone
    THEN LET text == PercentS(d, MarginMsgBefore, margin_value, MarginMsgAfter)
         IN  IF text.exc # "None" THEN text ELSE Raise(d, "TypeError", text.val)
    ELSE Return(d, PyNone)

\* _Cell.margin_left, margin_right, margin_top, margin_bottom (getters)
Cell_margin_left(d, cell) == Tc_getattr(d, cell.v, "marL")
Cell_margin_right(d, cell) == Tc_getattr(d, cell.v, "marR")
Cell_margin_top(d, cell) == Tc_getattr(d, cell.v, "marT")
Cell_margin_bottom(d, cell) == Tc_getattr(d, cell.v, "marB")

\* Mutant: None is replaced by 0 before it is written.
Cell_margin_left_set_NoneAsZero(d, cell, margin_left) ==
    LET ok == Cell_validate_margin_value(d, margin_left)
    IN  IF ok.exc # "None" THEN ok
        ELSE Return(Tc_setattr(d, cell.v, "marL",
                               IF margin_left = PyNone THEN PyInt(0) ELSE margin_left), PyNone)

\* _Cell.margin_left (setter)
Cell_margin_left_set(d, cell, margin_left) ==
    LET ok == Cell_validate_margin_value(d, margin_left)
    IN  IF ok.exc # "None" THEN ok
        ELSE Return(Tc_setattr(d, cell.v, "marL", margin_left), PyNone)

\* _Cell.margin_right (setter)
Cell_margin_right_set(d, cell, margin_right) ==
    LET ok == Cell_validate_margin_value(d, margin_right)
    IN  IF ok.exc # "None" THEN ok
        ELSE Return(Tc_setattr(d, cell.v, "marR", margin_right), PyNone)

\* _Cell.margin_top (setter)
Cell_margin_top_set(d, cell, margin_top) ==
    LET ok == Cell_validate_margin_value(d, margin_top)
    IN  IF ok.exc # "None" THEN ok
        ELSE Return(Tc_setattr(d, cell.v, "marT", margin_top), PyNone)

\* _Cell.margin_bottom (setter)
Cell_margin_bottom_set(d, cell, margin_bottom) ==
    LET ok == Cell_validate_margin_value(d, margin_bottom)
    IN  IF ok.exc # "None" THEN ok
        ELSE Return(Tc_setattr(d, cell.v, "marB", margin_bottom), PyNone)

(***************************************************************************)
(* SpecMargin: the four margins of the cell of a 1 x 1 table, assigned     *)
(* and read through table.cell(0, 0).                                      *)
(***************************************************************************)
MarginInts == (-1)..MaxMargin
NotMargins == {PyFloat(3, 5), PyTuple(<<1, 2>>)}
Assignable == {PyNone} \cup {PyInt(n) : n \in MarginInts} \cup NotMargins

MarginInit ==
    /\ \E b \in BOOLEAN : TableInit(<<1>>, <<1>>, b)
    /\ graphic_frame = Consistent(<<1>>, <<1>>)
    /\ Idle

TheCell == Table_cell(Doc, 0, 0, 1).val

Called(op, value, r) ==
    /\ Commit(r.doc)
    /\ ret' = Outcome(op, <<value>>, r)
    /\ UNCHANGED <<stack, log, held, assigned, initial>>

\* table.cell(0, 0).margin_left = value
SetMarginLeft(value) == Called("margin_left=", value, Cell_margin_left_set(Doc, TheCell, value))

\* table.cell(0, 0).margin_right = value
SetMarginRight(value) == Called("margin_right=", value, Cell_margin_right_set(Doc, TheCell, value))

\* table.cell(0, 0).margin_top = value
SetMarginTop(value) == Called("margin_top=", value, Cell_margin_top_set(Doc, TheCell, value))

\* table.cell(0, 0).margin_bottom = value
SetMarginBottom(value) ==
    Called("margin_bottom=", value, Cell_margin_bottom_set(Doc, TheCell, value))

\* table.cell(0, 0).margin_left, .margin_right, .margin_top, .margin_bottom
ReadMargin(side) ==
    LET val == CASE side = "margin_left" -> Cell_margin_left(Doc, TheCell)
                 [] side = "margin_right" -> Cell_margin_right(Doc, TheCell)
                 [] side = "margin_top" -> Cell_margin_top(Doc, TheCell)
                 [] side = "margin_bottom" -> Cell_margin_bottom(Doc, TheCell)
    IN  /\ ret' = [NoCall EXCEPT !.op = side, !.val = val]
        /\ UNCHANGED <<tr_h, gridCol_w, graphic_frame, tblPr, tc, spans, stack, log, held,
                       assigned, initial>>

MarginNext ==
    \/ \E value \in Assignable : SetMarginLeft(value)
    \/ \E value \in Assignable : SetMarginRight(value)
    \/ \E value \in Assignable : SetMarginTop(value)
    \/ \E value \in Assignable : SetMarginBottom(value)
    \/ \E side \in {"margin_left", "margin_right", "margin_top", "margin_bottom"} :
          ReadMargin(side)

SpecMargin == MarginInit /\ [][MarginNext]_vars

MarginSetters == {"margin_left=", "margin_right=", "margin_top=", "margin_bottom="}
AttrOf(op) ==
    CASE op = "margin_left=" -> "marL"
      [] op = "margin_right=" -> "marR"
      [] op = "margin_top=" -> "marT"
      [] op = "margin_bottom=" -> "marB"
Accepted(value) == value.cls = "int" \/ value = PyNone

\* The message is the margin message, with something between its quotes.
NamesAValue(msg) ==
    /\ Len(msg) >= 3
    /\ msg[1] = MarginMsgBefore[1]
    /\ msg[Len(msg)] = MarginMsgAfter[1]

OnlyWritten(attr, value) ==
    /\ tc'[<<0, 0>>][attr] = value
    /\ \A other \in (DOMAIN tc[<<0, 0>>]) \ {attr} : tc'[<<0, 0>>][other] = tc[<<0, 0>>][other]
    /\ UNCHANGED <<tr_h, gridCol_w, graphic_frame, tblPr, spans>>

\* C5 as stated: a margin setter given a value that is neither an integer nor
\* None raises the invalid-margin-type error naming the value and changes
\* nothing; given an integer (zero and negatives included) or None it raises
\* nothing and writes exactly that one margin.
C5_MarginSetter ==
    /\ [](ret.op \in MarginSetters =>
            /\ Accepted(ret.arg[1]) => ret.exc = "None"
            /\ ~Accepted(ret.arg[1]) => (ret.exc = "TypeError" /\ NamesAValue(ret.msg)))
    /\ [][ret'.op \in MarginSetters =>
            IF Accepted(ret'.arg[1]) THEN OnlyWritten(AttrOf(ret'.op), ret'.arg[1])
            ELSE UNCHANGED <<tr_h, gridCol_w, graphic_frame, tblPr, tc, spans>>]_vars

\* C5 without the message: every value that is neither an integer nor None is
\* refused with TypeError and nothing is written; every integer and None is
\* accepted and exactly the one margin is written.
C5_ExceptTheMessage ==
    /\ [](ret.op \in MarginSetters =>
            /\ Accepted(ret.arg[1]) => ret.exc = "None"
            /\ ~Accepted(ret.arg[1]) => ret.exc = "TypeError")
    /\ [][ret'.op \in MarginSetters =>
            IF Accepted(ret'.arg[1]) THEN OnlyWritten(AttrOf(ret'.op), ret'.arg[1])
            ELSE UNCHANGED <<tr_h, gridCol_w, graphic_frame, tblPr, tc, spans>>]_vars

Regions(R, C) ==
    {sp \in [r0 : 0..(R - 1), c0 : 0..(C - 1), r1 : 0..(R - 1), c1 : 0..(C - 1)] :
        /\ sp.r0 <= sp.r1
        /\ sp.c0 <= sp.c1
        /\ <<sp.r0, sp.c0>> # <<sp.r1, sp.c1>>}

Nothing == [obj |-> PyNone, at |-> <<>>]

CellInit ==
    /\ \E R \in 1..MaxRows, C \in 1..MaxCols :
         /\ tr_h = [k \in 1..R |-> 1]
         /\ gridCol_w = [k \in 1..C |-> 1]
         /\ tblPr = Flags(FALSE)
         /\ tc = [rc \in Coords(R, C) |-> Fresh]
         /\ graphic_frame = Consistent(tr_h, gridCol_w)
         /\ spans \in {{}} \cup {{sp} : sp \in Regions(R, C)}
    /\ ret = NoCall
    /\ stack = <<>>
    /\ log = <<>>
    /\ held = <<Nothing, Nothing>>
    /\ assigned = {}
    /\ initial = <<>>

Bit(b) == IF b THEN 1 ELSE 0

\* held[slot] = table.cell(row_idx, col_idx): a proxy object of its own
LookUp(slot, row_idx, col_idx) ==
    LET r == Table_cell(Doc, row_idx, col_idx, slot)
    IN  /\ Commit(r.doc)
        /\ held' = [held EXCEPT ![slot] = [obj |-> r.val, at |-> <<row_idx, col_idx>>]]
        /\ ret' = Outcome("cell()", <<slot>>, r)
        /\ UNCHANGED <<stack, log, assigned, initial>>

\* held[2] = table.rows[idx]: something that is not a cell
HoldRow(idx) ==
    LET r == RowCollection_getitem(Doc, idx)
    IN  /\ Commit(r.doc)
        /\ held' = [held EXCEPT ![2] = [obj |-> [r.val EXCEPT !.oid = 2], at |-> <<>>]]
        /\ ret' = Outcome("rows[]", <<2>>, r)
        /\ UNCHANGED <<stack, log, assigned, initial>>

\* (held[i] == held[j], held[i] != held[j])
Compare(i, j) ==
    /\ ret' = [NoCall EXCEPT !.op = "==", !.arg = <<i, j>>,
                             !.val = PyTuple(<<Bit(PyEq(held[i].obj, held[j].obj)),
                                               Bit(PyNe(held[i].obj, held[j].obj))>>)]
    /\ UNCHANGED <<tr_h, gridCol_w, graphic_frame, tblPr, tc, spans, stack, log, held,
                   assigned, initial>>

\* table.rows[row_idx].cells[col_idx].is_merge_origin
CheckMergeOrigin(row_idx, col_idx) ==
    LET cell == CellCollection_getitem(Doc, RowCollection_getitem(Doc, row_idx).val, col_idx).val
    IN  /\ ret' = [NoCall EXCEPT !.op = "is_merge_origin", !.arg = <<row_idx, col_idx>>,
                                 !.val = PyTuple(<<Bit(Cell_is_merge_origin(Doc, cell))>>)]
        /\ UNCHANGED <<tr_h, gridCol_w, graphic_frame, tblPr, tc, spans, stack, log, held,
                       assigned, initial>>

CellNext ==
    \/ \E slot \in 1..2, rc \in DOMAIN tc : LookUp(slot, rc[1], rc[2])
    \/ \E idx \in 0..(Len(tr_h) - 1) : HoldRow(idx)
    \/ \E i \in 1..2, j \in 1..2 : Compare(i, j)
    \/ \E rc \in DOMAIN tc : CheckMergeOrigin(rc[1], rc[2])

SpecCell == CellInit /\ [][CellNext]_vars

Compared == ret.op = "=="
Left == held[ret.arg[1]]
Right == held[ret.arg[2]]
SaidEqual == ret.val.v[1] = 1
SaidUnequal == ret.val.v[2] = 1
IsCell(h) == h.obj.cls = "_Cell"
Covered(at) == \E sp \in spans : at \in CellsOf(sp)

C7_CellEquality ==
    Compared =>
        /\ SaidUnequal <=> ~SaidEqual
        /\ (IsCell(Left) /\ IsCell(Right) /\ Left.at = Right.at) => SaidEqual
        /\ (/\ IsCell(Left)
            /\ IsCell(Right)
            /\ Left.at # Right.at
            /\ ~Covered(Left.at)
            /\ ~Covered(Right.at)) => ~SaidEqual
        /\ (IsCell(Left) # IsCell(Right)) => ~SaidEqual

\* C7 witness: two proxy objects, constructed by two lookups of one
\* coordinate, were compared.
C7_Witness ==
    /\ Compared
    /\ IsCell(Left)
    /\ IsCell(Right)
    /\ Left.obj.oid # Right.obj.oid
    /\ Left.at = Right.at
    /\ SaidEqual

====
